---- MODULE Spec2Model ----
(***************************************************************************)
(* fawrap: an LD_PRELOAD library that confines file access to a window     *)
(* [segment_offset, segment_offset + segment_len] of one target file.      *)
(*                                                                         *)
(* The model follows src/fawrap.c.  Program state is the globals of the    *)
(* library (target_name, target_fd[], segment_offset, segment_len,         *)
(* debug_level).  The kernel side is the environment: the set of open      *)
(* descriptors and the results the real (dlsym RTLD_NEXT) functions give.  *)
(* Every intercepted function is one action; what the caller passed, what  *)
(* the real function was given and what came back are kept in call, real,  *)
(* ret, errno and statbuf so that properties can speak about them.         *)
(*                                                                         *)
(* Strings are sequences of one-character strings.  Offsets are off_t /    *)
(* off64_t on LP64 (64 bit); every value the model reaches stays far below *)
(* that width, so plain integers are used.                                 *)
(***************************************************************************)
EXTENDS Integers, Sequences, FiniteSets, TLC

VARIABLES
  pc,             \* "load" before init() ran, "run" while the process lives, "exit" after exit(1)
  FILE,           \* the environment variable FILE: [set |-> BOOLEAN, val |-> string]
  target_name,    \* static char *target_name
  target_fd,      \* static int target_fd[MAX_FD]
  segment_offset, \* static off64_t segment_offset
  segment_len,    \* static off64_t segment_len
  debug_level,    \* static char debug_level
  openfds,        \* kernel: the descriptors that are open in the process
  owned,          \* ghost: descriptors a successful intercepted open of the target path returned, not closed since
  nofile,         \* kernel: RLIMIT_NOFILE, descriptors are below it
  call,           \* the last intercepted call: the function and the caller's arguments
  real,           \* the real function that call invoked, its arguments, its result; n = how often
  ret,            \* what the intercepted call returned to the caller
  errno,          \* errno as written during the last call ("" when nothing wrote it)
  statbuf,        \* the caller's struct stat after the last call
  thr             \* per thread: where it is inside open() and add_fd(), with their locals

vars == <<pc, FILE, target_name, target_fd, segment_offset, segment_len, debug_level,
          openfds, owned, nofile, call, real, ret, errno, statbuf, thr>>

(***************************************************************************)
(* Program constants.                                                      *)
(***************************************************************************)
MAX_FD == 16
LOG_ERR == 2
LOG_INFO == 3
LOG_DBG == 4
O_CREAT == 64
SEEK_SET == 0
EINVAL == 22
ENOSPC == 28

(***************************************************************************)
(* Bounds of the model.                                                    *)
(***************************************************************************)
\* descriptor arguments of close and of the descriptor based calls are -1, 0 and 3..MaxFdArg
MaxFdArg == 3
\* the real open of the target path fails only while fewer than MaxFail slots hold its -1
MaxFail == 2
\* at most MaxOther descriptors that are not of the target file are open at once
MaxOther == 3
\* RLIMIT_NOFILE of the runs of Spec
NoFile == 4
\* RLIMIT_NOFILE of the runs of SpecFull: room for more than MAX_FD target descriptors
NoFileFull == 20
\* longest FILE value of SpecEnv
MaxEnvLen == 6
\* opens of the target path each thread of SpecRace makes
MaxRaceOpens == 2

Min(S) == CHOOSE m \in S : \A n \in S : m <= n

(***************************************************************************)
(* The registry.                                                           *)
(***************************************************************************)
Slots == 0 .. (MAX_FD - 1)

\* the first slot of reg holding v, MAX_FD when the loop runs to its end
FirstSlot(reg, v) ==
  IF \E i \in Slots : reg[i] = v THEN Min({i \in Slots : reg[i] = v}) ELSE MAX_FD

\* strcmp(path, target_name) == 0
check_name(path) == ~target_name.null /\ path = target_name.str

\* mutant: every descriptor counts as contained
check_fd_always(fd) == TRUE

check_fd(fd) == \E i \in Slots : fd = target_fd[i]

\* add_fd returns true (full) when no slot holds 0, else stores fd in the first such slot
add_fd_full == FirstSlot(target_fd, 0) = MAX_FD

add_fd_reg(fd) ==
  IF add_fd_full THEN target_fd
  ELSE [target_fd EXCEPT ![FirstSlot(target_fd, 0)] = fd]

\* remove_fd exits when no slot holds fd, else zeroes the first such slot
remove_fd_exit(fd) == FirstSlot(target_fd, fd) = MAX_FD

\* mutant: the slot is left as it is
remove_fd_reg_keep(fd) == target_fd

remove_fd_reg(fd) ==
  IF remove_fd_exit(fd) THEN target_fd
  ELSE [target_fd EXCEPT ![FirstSlot(target_fd, fd)] = 0]

(***************************************************************************)
(* init(): the constructor.  strtok and strtoull as the C library does     *)
(* them.                                                                   *)
(***************************************************************************)
NULL == [null |-> TRUE, str |-> <<>>]
Ptr(s) == [null |-> FALSE, str |-> s]

Digits == {"0", "1", "2", "3", "4", "5", "6", "7", "8", "9"}

DigitVal(c) ==
  CASE c = "0" -> 0 [] c = "1" -> 1 [] c = "2" -> 2 [] c = "3" -> 3 [] c = "4" -> 4
    [] c = "5" -> 5 [] c = "6" -> 6 [] c = "7" -> 7 [] c = "8" -> 8 [] c = "9" -> 9

\* the first position >= p of s that holds no delimiter (Len(s) + 1: none)
RECURSIVE SkipDelim(_, _)
SkipDelim(s, p) ==
  IF p > Len(s) THEN p ELSE IF s[p] = "," THEN SkipDelim(s, p + 1) ELSE p

\* the first position >= p of s that holds a delimiter (Len(s) + 1: none)
RECURSIVE FindDelim(_, _)
FindDelim(s, p) ==
  IF p > Len(s) THEN p ELSE IF s[p] = "," THEN p ELSE FindDelim(s, p + 1)

\* strtok(.., ","): s is the string, p the saved position; tok is the token or NULL,
\* next the position saved for the following call
strtok(s, p) ==
  LET b == SkipDelim(s, p) IN
  IF b > Len(s) THEN [tok |-> NULL, next |-> b]
  ELSE LET e == FindDelim(s, b) IN
       [tok |-> Ptr(SubSeq(s, b, e - 1)), next |-> IF e > Len(s) THEN e ELSE e + 1]

\* the value of the longest prefix of decimal digits of s from position p, acc so far
RECURSIVE DigitsVal(_, _, _)
DigitsVal(s, p, acc) ==
  IF p > Len(s) \/ s[p] \notin Digits THEN acc
  ELSE DigitsVal(s, p + 1, 10 * acc + DigitVal(s[p]))

\* strtoull(s, NULL, 10) stored in an off64_t: an optional sign, then digits; 0 when
\* there are none; a '-' negates (modulo 2^64, which the signed off64_t reads as -n)
strtoull(s) ==
  IF Len(s) >= 1 /\ s[1] = "-" THEN 0 - DigitsVal(s, 2, 0)
  ELSE IF Len(s) >= 1 /\ s[1] = "+" THEN DigitsVal(s, 2, 0)
  ELSE DigitsVal(s, 1, 0)

\* init() from getenv("FILE") on: what it leaves in the globals, and whether it exits
init_result(fopen_ok) ==
  IF ~FILE.set THEN [exit |-> TRUE, name |-> NULL, off |-> 0, len |-> 0, lvl |-> LOG_ERR]
  ELSE
    LET t1 == strtok(FILE.val, 1)
        t2 == strtok(FILE.val, t1.next)
        t3 == strtok(FILE.val, t2.next)
        t4 == strtok(FILE.val, t3.next)
        lvl == IF t4.tok.null THEN LOG_ERR
               ELSE IF t4.tok.str = <<"d">> THEN LOG_DBG
               ELSE IF t4.tok.str = <<"i">> THEN LOG_INFO
               ELSE LOG_ERR
    IN
    IF t2.tok.null
      THEN [exit |-> TRUE, name |-> t1.tok, off |-> 0, len |-> 0, lvl |-> LOG_ERR]
    ELSE IF t3.tok.null
      THEN [exit |-> TRUE, name |-> t1.tok, off |-> strtoull(t2.tok.str), len |-> 0,
            lvl |-> LOG_ERR]
    ELSE [exit |-> lvl >= LOG_INFO /\ ~fopen_ok, name |-> t1.tok,
          off |-> strtoull(t2.tok.str), len |-> strtoull(t3.tok.str), lvl |-> lvl]

\* A call's arguments: the fields a function does not take are left at 0 / "" / <<>>.
\* ver is the version argument of the __xstat family, count also fallocate's len.
NoArgs == [op |-> "", path |-> <<>>, fd |-> 0, flags |-> 0, mode |-> 0, ver |-> 0,
           buf |-> "", offset |-> 0, whence |-> 0, count |-> 0]
\* The real call of an intercepted call: n = 0 and op = "" when there was none.
\* what the caller's struct stat holds before the call
UninitStat == [st_mode |-> 0, st_size |-> 0]
\* The real call of an intercepted call: n = 0 and op = "" when there was none; res is
\* its result and st the struct stat as it left it.
NoReal == [op |-> "", path |-> <<>>, fd |-> 0, flags |-> 0, mode |-> 0, ver |-> 0,
           buf |-> "", offset |-> 0, whence |-> 0, count |-> 0, n |-> 0, res |-> 0,
           st |-> UninitStat]
\* the real call with the arguments a, made once, returning res
RealOf(a, res) ==
  [op |-> a.op, path |-> a.path, fd |-> a.fd, flags |-> a.flags, mode |-> a.mode,
   ver |-> a.ver, buf |-> a.buf, offset |-> a.offset, whence |-> a.whence,
   count |-> a.count, n |-> 1, res |-> res, st |-> UninitStat]

init ==
  /\ pc = "load"
  /\ \E fopen_ok \in BOOLEAN :
       LET r == init_result(fopen_ok) IN
       /\ pc' = IF r.exit THEN "exit" ELSE "run"
       /\ target_name' = r.name
       /\ segment_offset' = r.off
       /\ segment_len' = r.len
       /\ debug_level' = r.lvl
  /\ target_fd' = [i \in Slots |-> 0]
  /\ call' = [NoArgs EXCEPT !.op = "init"]
  /\ UNCHANGED <<FILE, openfds, owned, nofile, real, ret, errno, statbuf, thr>>

(***************************************************************************)
(* The caller is one thread: it issues a call when the one before it has   *)
(* returned and its result was taken.                                      *)
(***************************************************************************)
Idle == pc = "run" /\ call = NoArgs

\* the caller has read the result of the last call and clears errno for the next
next_call ==
  /\ pc = "run"
  /\ call # NoArgs
  /\ call' = NoArgs
  /\ real' = NoReal
  /\ ret' = 0
  /\ errno' = ""
  /\ statbuf' = UninitStat
  /\ UNCHANGED <<pc, FILE, target_name, target_fd, segment_offset, segment_len,
                 debug_level, openfds, owned, nofile, thr>>

(***************************************************************************)
(* The kernel: what the real functions return.                             *)
(***************************************************************************)
FreeFds == (0 .. (nofile - 1)) \ openfds

\* descriptors the caller passes to close and to the descriptor based calls
FdArgs == {-1, 0} \cup (3 .. MaxFdArg)
\* paths the caller passes: the target's, and another file's
Paths == {<<"d">>, <<"e">>}
\* O_RDWR, O_RDWR | O_CREAT
Flags == {2, 66}
HasCreat(flags) == (flags \div O_CREAT) % 2 = 1

\* the real open: the lowest free descriptor, or -1
RealOpen(path) ==
  {[res |-> Min(FreeFds), err |-> ""] : x \in
      {y \in {1} : /\ FreeFds # {}
                   /\ (check_name(path) \/ Cardinality(openfds \ owned) < MaxOther)}}
  \cup
  {[res |-> -1, err |-> "ENOENT"] : x \in
      {y \in {1} : ~check_name(path)
                   \/ Cardinality({i \in Slots : target_fd[i] = -1}) < MaxFail}}

\* the real close: releases an open descriptor even when it reports an error
RealClose(fd) ==
  IF fd \in openfds THEN {[res |-> 0, err |-> ""], [res |-> -1, err |-> "EIO"]}
  ELSE {[res |-> -1, err |-> "EBADF"]}

(***************************************************************************)
(* open, open64, __open64_2                                                *)
(***************************************************************************)
\* the body the three open functions share, after the variadic mode was read
open_body(name, path, flags, mode) ==
  \E r \in RealOpen(path) :
    LET full == check_name(path) /\ add_fd_full IN
    /\ call' = [NoArgs EXCEPT !.op = name, !.path = path, !.flags = flags, !.mode = mode]
    /\ real' = [NoReal EXCEPT !.op = name, !.path = path, !.flags = flags, !.mode = mode,
                              !.n = 1, !.res = r.res]
    /\ errno' = r.err
    /\ openfds' = IF r.res >= 0 THEN openfds \cup {r.res} ELSE openfds
    /\ owned' = IF r.res >= 0 /\ check_name(path) THEN owned \cup {r.res} ELSE owned
    /\ target_fd' = IF check_name(path) THEN add_fd_reg(r.res) ELSE target_fd
    /\ pc' = IF full THEN "exit" ELSE "run"
    /\ ret' = IF full THEN ret ELSE r.res
    /\ UNCHANGED <<FILE, target_name, segment_offset, segment_len, debug_level, nofile,
                   statbuf, thr>>

\* mode is the caller's when O_CREAT is set, else 0
open_of(P) ==
  /\ Idle
  /\ \E path \in P, flags \in Flags :
       open_body("open", path, flags, IF HasCreat(flags) THEN 420 ELSE 0)

open64_of(P) ==
  /\ Idle
  /\ \E path \in P, flags \in Flags :
       open_body("open64", path, flags, IF HasCreat(flags) THEN 420 ELSE 0)

\* __open64_2 takes no mode
x__open64_2_of(P) ==
  /\ Idle
  /\ \E path \in P, flags \in Flags :
       open_body("__open64_2", path, flags, 0)

open == open_of(Paths)
open64 == open64_of(Paths)
__open64_2 == x__open64_2_of(Paths)

(***************************************************************************)
(* close                                                                   *)
(***************************************************************************)
close_of(F) ==
  /\ Idle
  /\ \E fd \in F : \E r \in RealClose(fd) :
       LET tracked == check_fd(fd)
           fatal == tracked /\ remove_fd_exit(fd)
       IN
       /\ call' = [NoArgs EXCEPT !.op = "close", !.fd = fd]
       /\ real' = [NoReal EXCEPT !.op = "close", !.fd = fd, !.n = 1, !.res = r.res]
       /\ errno' = r.err
       /\ openfds' = openfds \ {fd}
       /\ owned' = owned \ {fd}
       /\ target_fd' = IF tracked THEN remove_fd_reg(fd) ELSE target_fd
       /\ pc' = IF fatal THEN "exit" ELSE "run"
       /\ ret' = IF fatal THEN ret ELSE r.res
  /\ UNCHANGED <<FILE, target_name, segment_offset, segment_len, debug_level, nofile,
                 statbuf, thr>>

close == close_of(FdArgs)

(***************************************************************************)
(* The descriptor based calls with an offset.                              *)
(***************************************************************************)
\* offsets the caller passes: below 0, the window's first bytes, its end, one past it
Offsets == {-1, 0, 1, segment_len, segment_len + 1}
\* SEEK_SET, SEEK_CUR
Whences == {SEEK_SET, 1}
Counts == {1, 8}
\* 0, FALLOC_FL_KEEP_SIZE
Modes == {0, 1}

\* mutant: the boundary offset is rejected too
out_of_bounds_ge(fd, offset) == check_fd(fd) /\ offset >= segment_len

\* mutant: the bound is taken in the file's coordinates
out_of_bounds_abs(fd, offset) == check_fd(fd) /\ offset > segment_offset + segment_len

\* if (check_fd(fd)) { if (offset_new > segment_len) return ...; }
out_of_bounds(fd, offset) == check_fd(fd) /\ offset > segment_len

\* if (check_fd(fd)) { ...; offset_new += segment_offset; }
translate(fd, offset) == IF check_fd(fd) THEN offset + segment_offset ELSE offset

\* lseek: if (check_fd(fd)) { if (whence != SEEK_SET) exit(1); }
lseek_fatal(fd, whence) == check_fd(fd) /\ whence # SEEK_SET

\* mutant: the result is not moved back into the window
lseek_res_abs(fd, offset_new, res) ==
  IF check_fd(fd) /\ res # offset_new THEN -1 ELSE res

\* lseek: if (check_fd(fd)) { if (res != offset_new) res = -1;  res -= segment_offset; }
lseek_res(fd, offset_new, res) ==
  IF check_fd(fd)
  THEN (IF res # offset_new THEN -1 ELSE res) - segment_offset
  ELSE res

\* lseek: errno = EINVAL when the real result is not the offset asked for
lseek_errno(fd, offset_new, r) ==
  IF check_fd(fd) /\ r.res # offset_new THEN "EINVAL" ELSE r.err

RealSeek(fd, off, whence) ==
  IF fd \notin openfds THEN {[res |-> -1, err |-> "EBADF"]}
  ELSE IF whence = SEEK_SET
    THEN (IF off < 0 THEN {[res |-> -1, err |-> "EINVAL"]}
          ELSE {[res |-> off, err |-> ""], [res |-> -1, err |-> "ESPIPE"]})
  ELSE {[res |-> 0, err |-> ""], [res |-> -1, err |-> "ESPIPE"]}

RealRW(fd, count, off) ==
  IF fd \notin openfds THEN {[res |-> -1, err |-> "EBADF"]}
  ELSE IF off < 0 THEN {[res |-> -1, err |-> "EINVAL"]}
  ELSE {[res |-> count, err |-> ""], [res |-> count - 1, err |-> ""],
        [res |-> -1, err |-> "EIO"]}

RealFallocate(fd, off) ==
  IF fd \notin openfds THEN {[res |-> -1, err |-> "EBADF"]}
  ELSE IF off < 0 THEN {[res |-> -1, err |-> "EINVAL"]}
  ELSE {[res |-> 0, err |-> ""], [res |-> -1, err |-> "ENOSPC"]}

\* a call that leaves the registry and the descriptors alone returns rv
Return(a, rl, rv, e, st) ==
  /\ call' = a
  /\ real' = rl
  /\ ret' = rv
  /\ errno' = e
  /\ statbuf' = st
  /\ pc' = "run"
  /\ UNCHANGED <<FILE, target_name, target_fd, segment_offset, segment_len, debug_level,
                 openfds, owned, nofile, thr>>

\* exit(1) inside a call
Exit(a) ==
  /\ call' = a
  /\ real' = NoReal
  /\ pc' = "exit"
  /\ UNCHANGED <<FILE, target_name, target_fd, segment_offset, segment_len, debug_level,
                 openfds, owned, nofile, ret, errno, statbuf, thr>>

lseek_body(name) ==
  \E fd \in FdArgs, offset \in Offsets, whence \in Whences :
    LET a == [NoArgs EXCEPT !.op = name, !.fd = fd, !.offset = offset, !.whence = whence]
        offset_new == translate(fd, offset)
    IN
    IF lseek_fatal(fd, whence) THEN Exit(a)
    ELSE IF out_of_bounds(fd, offset) THEN Return(a, NoReal, EINVAL, "", statbuf)
    ELSE \E r \in RealSeek(fd, offset_new, whence) :
           Return(a, RealOf([a EXCEPT !.offset = offset_new], r.res),
                  lseek_res(fd, offset_new, r.res), lseek_errno(fd, offset_new, r), statbuf)

lseek == Idle /\ lseek_body("lseek")

lseek64 == Idle /\ lseek_body("lseek64")

fallocate ==
  /\ Idle
  /\ \E fd \in FdArgs, mode \in Modes, offset \in Offsets, len \in {8} :
       LET a == [NoArgs EXCEPT !.op = "fallocate", !.fd = fd, !.mode = mode,
                               !.offset = offset, !.count = len]
           offset_new == translate(fd, offset)
       IN
       IF out_of_bounds(fd, offset) THEN Return(a, NoReal, ENOSPC, "", statbuf)
       ELSE \E r \in RealFallocate(fd, offset_new) :
              Return(a, RealOf([a EXCEPT !.offset = offset_new], r.res), r.res, r.err,
                     statbuf)

pread64 ==
  /\ Idle
  /\ \E fd \in FdArgs, count \in Counts, offset \in Offsets :
       LET a == [NoArgs EXCEPT !.op = "pread64", !.fd = fd, !.buf = "ubuf",
                               !.count = count, !.offset = offset]
           offset_new == translate(fd, offset)
       IN
       IF out_of_bounds(fd, offset) THEN Return(a, NoReal, ENOSPC, "", statbuf)
       ELSE \E r \in RealRW(fd, count, offset_new) :
              Return(a, RealOf([a EXCEPT !.offset = offset_new], r.res), r.res, r.err,
                     statbuf)

pwrite64 ==
  /\ Idle
  /\ \E fd \in FdArgs, count \in Counts, offset \in Offsets :
       LET a == [NoArgs EXCEPT !.op = "pwrite64", !.fd = fd, !.buf = "ubuf",
                               !.count = count, !.offset = offset]
           offset_new == translate(fd, offset)
       IN
       IF out_of_bounds(fd, offset) THEN Return(a, NoReal, EINVAL, "", statbuf)
       ELSE \E r \in RealRW(fd, count, offset_new) :
              Return(a, RealOf([a EXCEPT !.offset = offset_new], r.res), r.res, r.err,
                     statbuf)

(***************************************************************************)
(* The status queries.                                                     *)
(***************************************************************************)
\* a regular file larger than the window's end, and a character device
RealStats ==
  {[st_mode |-> 33188, st_size |-> segment_offset + segment_len + 512],
   [st_mode |-> 8592, st_size |-> 0]}

\* the real query by path: the file is there or it is not
RealStatPath ==
  {[res |-> 0, err |-> "", st |-> st] : st \in RealStats}
    \cup {[res |-> -1, err |-> "ENOENT", st |-> UninitStat]}

\* the real query by descriptor
RealStatFd(fd) ==
  IF fd \in openfds THEN {[res |-> 0, err |-> "", st |-> st] : st \in RealStats}
  ELSE {[res |-> -1, err |-> "EBADF", st |-> UninitStat]}

\* mutant: the size reported is the window's end in the file
set_size_end(st) == [st EXCEPT !.st_size = segment_offset + segment_len]

\* buf->st_size = segment_len;
set_size(st) == [st EXCEPT !.st_size = segment_len]

xstat_body(name) ==
  \E path \in Paths, r \in RealStatPath :
    LET a == [NoArgs EXCEPT !.op = name, !.ver = 1, !.path = path, !.buf = "ubuf"] IN
    Return(a, [RealOf(a, r.res) EXCEPT !.st = r.st], r.res, r.err, set_size(r.st))

fstat_body(name, ver) ==
  \E fd \in FdArgs : \E r \in RealStatFd(fd) :
    LET a == [NoArgs EXCEPT !.op = name, !.ver = ver, !.fd = fd, !.buf = "ubuf"] IN
    Return(a, [RealOf(a, r.res) EXCEPT !.st = r.st], r.res, r.err, set_size(r.st))

__xstat == Idle /\ xstat_body("__xstat")

__xstat64 == Idle /\ xstat_body("__xstat64")

fstat == Idle /\ fstat_body("fstat", 0)

fstat64 == Idle /\ fstat_body("fstat64", 0)

__fxstat64 == Idle /\ fstat_body("__fxstat64", 1)

(***************************************************************************)
(* Specifications.                                                         *)
(***************************************************************************)
\* the threads of SpecRace; the other specifications have the one caller of call
Threads == {"T1", "T2"}
\* a thread outside open(): i and res are the locals of add_fd and open, n counts the
\* opens that returned
NoThread == [at |-> "idle", i |-> 0, res |-> 0, n |-> 0]

\* FILE=d,44040192,33554944 (the scenario of the usage comment)
Config == <<"d", ",", "4", "4", "0", "4", "0", "1", "9", "2", ",",
            "3", "3", "5", "5", "4", "9", "4", "4">>

InitWith(env, limit) ==
  /\ pc = "load"
  /\ FILE = env
  /\ target_name = NULL
  /\ target_fd = [i \in Slots |-> 0]
  /\ segment_offset = 0
  /\ segment_len = 0
  /\ debug_level = LOG_ERR
  /\ openfds = {0, 1, 2}
  /\ owned = {}
  /\ nofile = limit
  /\ call = NoArgs
  /\ real = NoReal
  /\ ret = 0
  /\ errno = ""
  /\ statbuf = UninitStat
  /\ thr = [t \in Threads |-> NoThread]

Init == InitWith([set |-> TRUE, val |-> Config], NoFile)

Next ==
  \/ init
  \/ next_call
  \/ open \/ open64 \/ __open64_2
  \/ close
  \/ lseek \/ lseek64
  \/ __xstat \/ __xstat64 \/ fstat \/ fstat64 \/ __fxstat64
  \/ fallocate \/ pread64 \/ pwrite64

Spec == Init /\ [][Next]_vars

\* The registry up to its capacity.  Only the functions that write target_fd take
\* part; the caller opens the target path and closes standard input.
InitFull == InitWith([set |-> TRUE, val |-> Config], NoFileFull)

open_full == open_of({<<"d">>})
close_full == close_of({0})

NextFull == init \/ next_call \/ open_full \/ close_full

SpecFull == InitFull /\ [][NextFull]_vars

(***************************************************************************)
(* Two threads in open() of the target path at once.  The library has no   *)
(* lock: add_fd's loop reads target_fd[i] and writes it in two steps, and  *)
(* the steps of the threads interleave.  The unsynchronised accesses are a *)
(* data race; its outcomes for the aligned int slots are those of the      *)
(* interleavings of the loads and stores, which is what the steps below    *)
(* produce.                                                                *)
(***************************************************************************)
\* res = p_open(path, flags, mode): the kernel hands out the lowest free descriptor
open_call(t) ==
  /\ pc = "run"
  /\ thr[t].at = "idle"
  /\ thr[t].n < MaxRaceOpens
  /\ check_name(<<"d">>)
  /\ FreeFds # {}
  /\ LET res == Min(FreeFds) IN
     /\ openfds' = openfds \cup {res}
     /\ owned' = owned \cup {res}
     /\ thr' = [thr EXCEPT ![t] = [@ EXCEPT !.at = "test", !.i = 0, !.res = res]]
  /\ UNCHANGED <<pc, FILE, target_name, target_fd, segment_offset, segment_len,
                 debug_level, nofile, call, real, ret, errno, statbuf>>

\* add_fd: for (i = 0; i < MAX_FD; i++) if (target_fd[i] == 0) ...; return true -> exit(1)
add_fd_test(t) ==
  /\ pc = "run"
  /\ thr[t].at = "test"
  /\ IF thr[t].i >= MAX_FD
       THEN pc' = "exit" /\ thr' = thr
     ELSE IF target_fd[thr[t].i] = 0
       THEN pc' = pc /\ thr' = [thr EXCEPT ![t] = [@ EXCEPT !.at = "store"]]
     ELSE pc' = pc /\ thr' = [thr EXCEPT ![t] = [@ EXCEPT !.i = @ + 1]]
  /\ UNCHANGED <<FILE, target_name, target_fd, segment_offset, segment_len, debug_level,
                 openfds, owned, nofile, call, real, ret, errno, statbuf>>

\* add_fd: target_fd[i] = fd; return false;
add_fd_store(t) ==
  /\ pc = "run"
  /\ thr[t].at = "store"
  /\ target_fd' = [target_fd EXCEPT ![thr[t].i] = thr[t].res]
  /\ thr' = [thr EXCEPT ![t] = [@ EXCEPT !.at = "ret"]]
  /\ UNCHANGED <<pc, FILE, target_name, segment_offset, segment_len, debug_level,
                 openfds, owned, nofile, call, real, ret, errno, statbuf>>

\* open: return res;
open_return(t) ==
  /\ pc = "run"
  /\ thr[t].at = "ret"
  /\ thr' = [thr EXCEPT ![t] = [@ EXCEPT !.at = "idle", !.n = @ + 1]]
  /\ UNCHANGED <<pc, FILE, target_name, target_fd, segment_offset, segment_len,
                 debug_level, openfds, owned, nofile, call, real, ret, errno, statbuf>>

InitRace == InitWith([set |-> TRUE, val |-> Config], NoFileFull)

NextRace ==
  \/ init
  \/ \E t \in Threads : open_call(t)
  \/ \E t \in Threads : add_fd_test(t)
  \/ \E t \in Threads : add_fd_store(t)
  \/ \E t \in Threads : open_return(t)

SpecRace == InitRace /\ [][NextRace]_vars

\* init() alone, over every value of FILE up to MaxEnvLen characters, and FILE unset
EnvAlphabet == {"d", ",", "1", "-"}
EnvValues ==
  {[set |-> FALSE, val |-> <<>>]}
    \cup {[set |-> TRUE, val |-> v] :
            v \in UNION {[1 .. n -> EnvAlphabet] : n \in 0 .. MaxEnvLen}}

InitEnv == \E e \in EnvValues : InitWith(e, NoFile)

SpecEnv == InitEnv /\ [][init]_vars

(***************************************************************************)
(* Properties.                                                             *)
(***************************************************************************)
OpenOps == {"open", "open64", "__open64_2"}
SeekOps == {"lseek", "lseek64"}
OffsetOps == {"lseek", "lseek64", "fallocate", "pread64", "pwrite64"}
PathStatOps == {"__xstat", "__xstat64"}
FdStatOps == {"fstat", "fstat64", "__fxstat64"}
FdOps == {"close"} \cup OffsetOps \cup FdStatOps

\* the real call got the caller's arguments
SameArgs ==
  /\ real.n = 1
  /\ real.op = call.op /\ real.path = call.path /\ real.fd = call.fd
  /\ real.flags = call.flags /\ real.mode = call.mode /\ real.ver = call.ver
  /\ real.buf = call.buf /\ real.offset = call.offset /\ real.whence = call.whence
  /\ real.count = call.count

\* C1: a descriptor an intercepted open of the target path returned is contained
\* (check_fd) right after that open, and is not contained right after the close of it;
\* for every descriptor value, 0 too.
C1_OpenThenCloseMembership ==
  [][/\ (Idle /\ call'.op \in OpenOps /\ check_name(call'.path) /\ pc' = "run"
           /\ ret' >= 0)
         => (check_fd(ret))'
     /\ (Idle /\ call'.op = "close" /\ call'.fd \in owned /\ pc' = "run")
         => ~(check_fd(call.fd))']_vars

\* C2: on a contained descriptor, pread64, pwrite64 and fallocate at a window offset
\* 0 <= o <= segment_len call the real function once, at o + segment_offset, with the
\* other arguments as given, and return its result as it is.
C2_PositionedForwarded ==
  (/\ pc = "run"
   /\ call.op \in {"pread64", "pwrite64", "fallocate"}
   /\ check_fd(call.fd)
   /\ 0 <= call.offset /\ call.offset <= segment_len)
  => /\ real.n = 1
     /\ real.op = call.op
     /\ real.offset = call.offset + segment_offset
     /\ real.fd = call.fd /\ real.buf = call.buf
     /\ real.count = call.count /\ real.mode = call.mode
     /\ ret = real.res

\* a positioned write at the boundary o = segment_len on a descriptor of the target file
C2_Witness ==
  /\ pc = "run" /\ call.op = "pwrite64" /\ call.fd \in owned /\ check_fd(call.fd)
  /\ call.offset = segment_len /\ segment_len > 0
  /\ real.n = 1 /\ real.offset = segment_offset + segment_len
  /\ ret = call.count - 1

\* C3: a status query of the target path or of a contained descriptor reports
\* st_size = segment_len whatever the real size is; the other fields and the return
\* value are the real query's.
C3_StatReportsWindowLength ==
  (/\ pc = "run"
   /\ \/ call.op \in PathStatOps /\ check_name(call.path)
      \/ call.op \in FdStatOps /\ check_fd(call.fd))
  => /\ real.n = 1
     /\ statbuf.st_size = segment_len
     /\ statbuf.st_mode = real.st.st_mode
     /\ ret = real.res

\* fstat64 of a descriptor of the target file whose real size is not the window's
C3_Witness ==
  /\ pc = "run" /\ call.op = "fstat64" /\ call.fd \in owned /\ check_fd(call.fd)
  /\ real.res = 0 /\ real.st.st_size > segment_len
  /\ statbuf.st_size = segment_len /\ statbuf.st_mode = real.st.st_mode

\* C4: when the trigger does not match (a path that is not the target's, a descriptor
\* that is not contained), every intercepted call passes through: the real function
\* gets the caller's arguments, the caller gets its return value and its output
\* (the real st_size too), and the registry is as before.
C4_PassThrough ==
  [][(/\ Idle /\ call'.op # "" /\ pc' = "run"
      /\ \/ call'.op \in OpenOps \cup PathStatOps /\ ~check_name(call'.path)
         \/ call'.op \in FdOps /\ ~check_fd(call'.fd))
     => (SameArgs /\ ret = real.res /\ statbuf = real.st)' /\ target_fd' = target_fd]_vars

\* C5: SEEK_SET on a contained descriptor at 0 <= o <= segment_len seeks the real
\* file to o + segment_offset, and when the real seek returns that, the caller gets o.
C5_SeekRoundTrip ==
  (/\ pc = "run"
   /\ call.op \in SeekOps
   /\ check_fd(call.fd)
   /\ call.whence = SEEK_SET
   /\ 0 <= call.offset /\ call.offset <= segment_len)
  => /\ real.n = 1
     /\ real.op = call.op /\ real.fd = call.fd /\ real.whence = SEEK_SET
     /\ real.offset = call.offset + segment_offset
     /\ (real.res = call.offset + segment_offset => ret = call.offset)

\* the scenario: base 44040192, seek to 0 goes to 44040192 and reports 0
C5_Witness ==
  /\ pc = "run" /\ call.op = "lseek" /\ call.fd \in owned /\ check_fd(call.fd)
  /\ call.whence = SEEK_SET /\ call.offset = 0
  /\ segment_offset = 44040192
  /\ real.n = 1 /\ real.offset = 44040192 /\ real.res = 44040192 /\ ret = 0

\* C6: on a contained descriptor a window offset o > segment_len (a SEEK_SET offset
\* for the seeks) is rejected: the real function is not called, the process goes on,
\* registry and descriptors are as before.
C6_OutOfWindowRejected ==
  [][(/\ Idle /\ call'.op \in OffsetOps
      /\ check_fd(call'.fd)
      /\ call'.offset > segment_len
      /\ (call'.op \in SeekOps => call'.whence = SEEK_SET))
     => /\ real'.n = 0
        /\ pc' = "run"
        /\ target_fd' = target_fd /\ openfds' = openfds]_vars

\* a seek one past the window on a descriptor of the target file
C6_Witness ==
  /\ pc = "run" /\ call.op = "lseek64" /\ call.fd \in owned /\ check_fd(call.fd)
  /\ call.whence = SEEK_SET /\ call.offset = segment_len + 1
  /\ real.n = 0

\* C7: an out-of-window access on a tracked descriptor (one an intercepted open of the
\* target path returned, contained in the registry) fails the way the function fails:
\* it returns -1 with errno EINVAL or ENOSPC, never a value that reads as a position or
\* a byte count.
C7_OutOfWindowIsFailure ==
  (/\ pc = "run" /\ call.op \in OffsetOps
   /\ call.fd \in owned /\ check_fd(call.fd)
   /\ call.offset > segment_len
   /\ real.n = 0)
  => ret = -1 /\ errno \in {"EINVAL", "ENOSPC"}

\* C8: with MAX_FD descriptors of the target file tracked (returned by an intercepted
\* open of the target path, still open, contained in the registry), one more intercepted
\* open of the target path (which the kernel grants) exits and returns nothing; and a
\* descriptor such an open returns is in the registry when it returns.
C8_FullRegistryIsFatal ==
  [][/\ (/\ Idle /\ call'.op \in OpenOps /\ check_name(call'.path)
          /\ Cardinality(owned) = MAX_FD /\ \A fd \in owned : check_fd(fd)
          /\ real'.res >= 0)
         => pc' = "exit"
     /\ (/\ Idle /\ call'.op \in OpenOps /\ check_name(call'.path)
          /\ pc' = "run" /\ ret' >= 0)
         => (check_fd(ret))']_vars

\* C9: close of a descriptor that is not tracked (not one an intercepted open of the
\* target path returned and still open) leaves all slots as they were and does not
\* exit; for every value, 0 and -1 too.
C9_CloseUntrackedFrame ==
  [][(Idle /\ call'.op = "close" /\ call'.fd \notin owned)
     => target_fd' = target_fd /\ pc' = "run"]_vars

\* a FILE value init() must refuse: unset, or no offset, or no length, or one of the
\* two not a decimal number
IsNumber(s) == Len(s) > 0 /\ \A i \in 1 .. Len(s) : s[i] \in Digits
Malformed(env) ==
  \/ ~env.set
  \/ LET t1 == strtok(env.val, 1)
         t2 == strtok(env.val, t1.next)
         t3 == strtok(env.val, t2.next)
     IN \/ t2.tok.null \/ t3.tok.null
        \/ ~IsNumber(t2.tok.str) \/ ~IsNumber(t3.tok.str)

\* C10: init() ends the process when FILE is unset, or the offset or the length is
\* missing or not a number; no run goes on with a window from such a value.
C10_MalformedConfigIsFatal ==
  (pc # "load" /\ Malformed(FILE)) => pc = "exit"

\* C11: the registry changes by an intercepted open only when that open is of the
\* target path and its real open succeeded: a failed open of the target path and an
\* open of another path leave all slots as they were; and a value that is in a slot
\* leaves it only by close of that value.
C11_EntersOnlyOnSuccess ==
  [][/\ (/\ Idle /\ call'.op \in OpenOps
          /\ (~check_name(call'.path) \/ real'.res = -1))
         => target_fd' = target_fd
     /\ \A i \in Slots :
          (target_fd[i] # 0 /\ target_fd'[i] # target_fd[i])
            => (call'.op = "close" /\ call'.fd = target_fd[i])]_vars

\* C12: in every reachable state no value is in more than one slot, and at most MAX_FD
\* slots are occupied (hold a value other than the empty marker).
C12_RegistryInvariant ==
  /\ \A i, j \in Slots :
       (i # j /\ target_fd[i] # 0) => target_fd[i] # target_fd[j]
  /\ Cardinality({i \in Slots : target_fd[i] # 0}) <= MAX_FD

\* C13: SEEK_SET at 0 <= o <= segment_len on a tracked descriptor, when the real seek
\* returns something else than o + segment_offset (its failure value -1 too), returns -1
\* with errno set.
C13_SeekMismatchIsFailure ==
  (/\ pc = "run" /\ call.op \in SeekOps
   /\ call.fd \in owned /\ check_fd(call.fd)
   /\ call.whence = SEEK_SET
   /\ 0 <= call.offset /\ call.offset <= segment_len
   /\ real.n = 1 /\ real.res # call.offset + segment_offset)
  => ret = -1 /\ errno # ""

\* C14: a seek with a reference point other than SEEK_SET exits exactly when the
\* descriptor is tracked (an intercepted open of the target path returned it, not closed
\* since), and then without a real seek; on any other descriptor (fd >= 0), standard
\* input too, it is the real seek with the caller's arguments and result.
C14_WhenceFatalIffTracked ==
  [][(Idle /\ call'.op \in SeekOps /\ call'.whence # SEEK_SET /\ call'.fd >= 0)
     => /\ (pc' = "exit") <=> (call'.fd \in owned)
        /\ (call'.fd \in owned) => real'.n = 0
        /\ (call'.fd \notin owned) => (SameArgs /\ ret = real.res)']_vars

C19_CloseNeverExits ==
  [][(Idle /\ call'.op = "close")
     => (pc' = "run" /\ (check_fd(call'.fd) => ~remove_fd_exit(call'.fd)))]_vars

\* a close that did call remove_fd: slot 0 was emptied while slot 1 is in use
C19_Witness ==
  /\ pc = "run" /\ call.op = "close" /\ real.n = 1
  /\ target_fd[0] = 0 /\ target_fd[1] > 0
  /\ ~check_fd(call.fd)

\* C16: when init() returns without exit, the window has segment_len > 0 and a base
\* that is an offset (not negative: a negative off64_t is what a strtoull result of
\* 2^63 or more, such as that of "-1", reads as), so that base + length is in the
\* offset domain.
C16_WindowWellFormed ==
  pc = "run" => (segment_len > 0 /\ segment_offset >= 0
                 /\ segment_offset + segment_len >= segment_offset)

\* C17: on a tracked descriptor every offset handed to the real lseek, lseek64,
\* fallocate, pread64 or pwrite64 lies in [segment_offset, segment_offset + segment_len],
\* whatever offset the caller passed, a negative one too.
C17_WindowConfinement ==
  (/\ pc = "run" /\ call.op \in OffsetOps
   /\ call.fd \in owned /\ check_fd(call.fd)
   /\ real.n = 1)
  => /\ segment_offset <= real.offset
     /\ real.offset <= segment_offset + segment_len

\* C18: in every state of the running process a value is contained (check_fd) only if
\* an intercepted open of the target path returned it and it was not closed since,
\* descriptor 0 too; and an offset call on a descriptor that is not such a one hands
\* the caller's offset to the real function as it is.
C18_RegistrySoundness ==
  pc = "run" =>
    /\ \A fd \in -1 .. nofile : check_fd(fd) => fd \in owned
    /\ (call.op \in OffsetOps /\ call.fd \notin owned /\ real.n = 1)
         => real.offset = call.offset

\* C20: two threads open the target path at the same time, get distinct descriptors
\* other than 0, slots are free: whenever no thread is inside open(), every descriptor
\* the opens returned is in the registry, however the steps of add_fd interleaved.
C20_NoLostInsertion ==
  (pc = "run" /\ \A t \in Threads : thr[t].at = "idle")
  => \A fd \in owned : check_fd(fd)

====
